---- MODULE Spec2Model ----
(***************************************************************************)
(* DOCConvert: the convert page (src/app/convert/page.tsx) and the         *)
(* conversion endpoint (src/app/api/convert/route.ts) as state machines.   *)
(*                                                                         *)
(* The page is a React component: its state is the useState cells, a       *)
(* handler runs to completion together with the render and the effects it  *)
(* triggers, and the asynchronous continuations (timers, network           *)
(* responses, the settling of convertDocument) are separate steps.         *)
(***************************************************************************)
EXTENDS Integers, Sequences, FiniteSets, TLC

VARIABLES
    sourceFormat,    \* useState sourceFormat
    targetFormat,    \* useState targetFormat
    file,            \* useState file (NoFile or a File)
    status,          \* useState status
    errorMsg,        \* useState errorMsg (NoError or a message)
    downloadUrl,     \* useState downloadUrl: the blob the object URL names
    fileName,        \* useState fileName
    progress,        \* useState progress
    preserveLayout,  \* useState preserveLayout
    useServer,       \* useState useServer
    health,          \* useState health
    healthLoading,   \* useState healthLoading
    healthReq,       \* the checkServerHealth call in flight: its closure
    conv,            \* the handleConvert call in flight: its closure and position
    uploadInterval,  \* the upload interval of the call in flight is running
    convertInterval, \* the convert interval of the call in flight is running
    staleIntervals,  \* convert intervals of ended calls that still run
    last,            \* what the convertDocument call of the current request did
    userEvents,      \* number of user events so far
    epCall,          \* the endpoint: the request being served and its environment
    epResp,          \* the endpoint: the response returned
    hcEnv,           \* the health probe: the environment it runs in
    hcResp,          \* the health probe: the response returned
    ex,              \* extractText on a PDF: its pages, position and output
    rep,             \* convertDocument called again on one input: the runs
    pw               \* the password prompts of the PDF being loaded

pageVars == <<sourceFormat, targetFormat, file, status, errorMsg, downloadUrl,
              fileName, progress, preserveLayout, useServer, health,
              healthLoading, healthReq, conv, uploadInterval, convertInterval,
              staleIntervals, last, userEvents>>

epVars == <<epCall, epResp>>

hcVars == <<hcEnv, hcResp>>

exVars == <<ex>>

repVars == <<rep>>

pwVars == <<pw>>

vars == <<pageVars, epVars, hcVars, exVars, repVars, pwVars>>

----------------------------------------------------------------------------
(* Bounds of the model *)

MaxUserEvents == 3   \* user events (clicks, selections, drops) in one run
MaxTextLen == 1      \* length of an extracted text

(* Constants of the progress simulation in handleConvert *)

progressStep == 5    \* prev + 5
uploadCap == 30      \* the upload interval stops at 30
convertCap == 100    \* the convert interval stops at 100

----------------------------------------------------------------------------
(* Format catalog *)

PDF == "PDF"
DOCX == "Word Document (DOCX)"
TXT == "Text File (TXT)"
RTF == "Rich Text (RTF)"
ODT == "OpenDocument Text (ODT)"

formatOptions == <<PDF, DOCX, TXT, RTF, ODT>>

ConversionFormat == {formatOptions[i] : i \in 1..Len(formatOptions)}

getExtension(format) ==
    CASE format = DOCX -> "docx"
      [] format = PDF -> "pdf"
      [] format = TXT -> "txt"
      [] format = RTF -> "rtf"
      [] format = ODT -> "odt"
      [] OTHER -> "converted"

getMimeTypeRtfAsText(format) ==
    CASE format = DOCX -> "application/vnd.openxmlformats-officedocument.wordprocessingml.document"
      [] format = PDF -> "application/pdf"
      [] format = TXT -> "text/plain"
      [] format = RTF -> "text/plain"
      [] format = ODT -> "application/vnd.oasis.opendocument.text"
      [] OTHER -> "application/octet-stream"

getMimeType(format) ==
    CASE format = DOCX -> "application/vnd.openxmlformats-officedocument.wordprocessingml.document"
      [] format = PDF -> "application/pdf"
      [] format = TXT -> "text/plain"
      [] format = RTF -> "application/rtf"
      [] format = ODT -> "application/vnd.oasis.opendocument.text"
      [] OTHER -> "application/octet-stream"

----------------------------------------------------------------------------
(* Files the user can pick: the name and its split('.') parts *)

NoFile == [name |-> "", parts |-> <<>>]

Files ==
    { [name |-> "report.pdf", parts |-> <<"report", "pdf">>],
      [name |-> "notes.DOCX", parts |-> <<"notes", "DOCX">>],
      [name |-> "a.txt", parts |-> <<"a", "txt">>],
      [name |-> "README", parts |-> <<"README">>] }

\* the FileList of a file input change or of a drop
FileLists == {<<f>> : f \in Files}

\* String.prototype.toLowerCase on the strings of the model
toLowerCase(s) ==
    CASE s = "DOCX" -> "docx"
      [] s = "README" -> "readme"
      [] s = ".DOCX" -> ".docx"
      [] s = ".PDF" -> ".pdf"
      [] OTHER -> s

\* the format handleFilesSelected detects from an extension ("" for none)
detectFormat(extension) ==
    CASE extension = "pdf" -> PDF
      [] extension \in {"docx", "doc"} -> DOCX
      [] extension = "txt" -> TXT
      [] extension = "rtf" -> RTF
      [] extension = "odt" -> ODT
      [] OTHER -> ""

\* selectedFile.name.split('.').pop()?.toLowerCase(), then the detection
detectedFormat(selectedFile) ==
    detectFormat(toLowerCase(selectedFile.parts[Len(selectedFile.parts)]))

\* the functional update of targetFormat in handleFilesSelected
fallbackTarget(prev, detected) ==
    IF prev = detected
    THEN (IF detected = PDF THEN DOCX ELSE PDF)
    ELSE prev

\* formatOptions.find((f) => f !== sourceFormat) || 'PDF'
firstAlt(src) ==
    LET idx == {i \in 1..Len(formatOptions) : formatOptions[i] # src}
    IN IF idx = {} THEN PDF
       ELSE formatOptions[CHOOSE i \in idx : \A j \in idx : i <= j]

TargetEffectMissing(src, tgt) == tgt

\* the effect that runs after every render in which source or target changed
TargetEffect(src, tgt) == IF tgt = src THEN firstAlt(src) ELSE tgt

targetOptionsAll(src) == formatOptions

\* the options the target select offers
targetOptions(src) == SelectSeq(formatOptions, LAMBDA option : option # src)

----------------------------------------------------------------------------
(* Health status as the page holds it *)

NullHealth == [isNull |-> TRUE, ok |-> FALSE, message |-> ""]

HealthFailedUnknown == [isNull |-> TRUE, ok |-> FALSE, message |-> ""]

HealthFailed == [isNull |-> FALSE, ok |-> FALSE, message |-> "Health check failed"]

\* bodies GET /api/convert/health can answer with
HealthResponses ==
    { [isNull |-> FALSE, ok |-> TRUE,
       message |-> "LibreOffice is available for server conversion."],
      [isNull |-> FALSE, ok |-> FALSE,
       message |-> "LibreOffice convert failed: ENOENT"] }

NoHealthReq == [active |-> FALSE, useServer |-> FALSE]

----------------------------------------------------------------------------
(* Texts and messages are sequences of tokens *)

Chars == {"x", " "}

Whitespace == {" ", "\n"}

Texts == UNION {[1..n -> Chars] : n \in 0..MaxTextLen}

\* text?.trim() is truthy
hasVisibleText(text) == \E i \in 1..Len(text) : text[i] \notin Whitespace

\* the values new Date().toLocaleString() takes
Dates == {"date-1", "date-2"}

NoError == <<>>

----------------------------------------------------------------------------
(* What the collaborators of one convertDocument call answer *)

\* answers of POST /api/convert as the page sees them
ServerResponses ==
    { [rejected |-> FALSE, ok |-> TRUE, status |-> 200, errorIsString |-> FALSE,
       error |-> "", hints |-> <<>>, body |-> <<"office-suite-output">>],
      [rejected |-> FALSE, ok |-> FALSE, status |-> 502, errorIsString |-> TRUE,
       error |-> "LibreOffice conversion failed: ENOENT",
       hints |-> <<"Ensure LibreOffice is installed", "Paths tried: /usr/bin/soffice">>,
       body |-> <<>>],
      [rejected |-> FALSE, ok |-> FALSE, status |-> 400, errorIsString |-> TRUE,
       error |-> "Invalid request", hints |-> <<>>, body |-> <<>>],
      [rejected |-> FALSE, ok |-> FALSE, status |-> 500, errorIsString |-> FALSE,
       error |-> "", hints |-> <<>>, body |-> <<>>],
      [rejected |-> TRUE, ok |-> FALSE, status |-> 0, errorIsString |-> FALSE,
       error |-> "", hints |-> <<>>, body |-> <<>>] }

\* results of extractText: it throws, or returns a text
ExtractOutcomes ==
    {[throws |-> TRUE, text |-> <<>>]}
        \cup {[throws |-> FALSE, text |-> t] : t \in Texts}

\* every combination of answers
Externals ==
    [resp : ServerResponses, extract : ExtractOutcomes,
     image : {"ok", "throws"}, build : {"ok", "throws"}, now : Dates]

NoAnswers ==
    [resp |-> CHOOSE r \in ServerResponses : r.ok,
     extract |-> [throws |-> TRUE, text |-> <<>>],
     image |-> "throws", build |-> "throws", now |-> CHOOSE d \in Dates : TRUE]

----------------------------------------------------------------------------
(* convertDocument *)

NoBlob == [type |-> "", body |-> <<>>]

Fail(msg, calls) == [ok |-> FALSE, error |-> msg, blob |-> NoBlob, calls |-> calls]

Done(blob, calls) == [ok |-> TRUE, error |-> NoError, blob |-> blob, calls |-> calls]

NoResult == [ok |-> FALSE, error |-> NoError, blob |-> NoBlob, calls |-> <<>>]

healthGateUnknownOnly(req) == req.useServer /\ req.health.isNull

\* if (useServer && health && !health.ok)
healthGate(req) == req.useServer /\ ~req.health.isNull /\ ~req.health.ok

pdfServerGateDocxOnly(req) ==
    /\ req.useServer
    /\ req.sourceFormat = PDF
    /\ req.targetFormat = DOCX

\* if (useServer && sourceFormat === 'PDF' && (target DOCX || target ODT))
pdfServerGate(req) ==
    /\ req.useServer
    /\ req.sourceFormat = PDF
    /\ req.targetFormat \in {DOCX, ODT}

imagePathIgnoringFlag(req) ==
    /\ req.sourceFormat = PDF
    /\ req.targetFormat = DOCX

\* if (sourceFormat === 'PDF' && targetFormat === DOCX && preserveLayout)
imagePathChosen(req) ==
    /\ req.sourceFormat = PDF
    /\ req.targetFormat = DOCX
    /\ req.preserveLayout

\* hints.join('\n') preceded by '\n'
RECURSIVE joinHints(_)
joinHints(hints) ==
    IF hints = <<>> THEN <<>>
    ELSE <<"\n", Head(hints)>> \o joinHints(Tail(hints))

\* the message thrown for a response that is not ok
serverErrorMessage(resp) ==
    LET base == IF resp.errorIsString
                THEN <<resp.error>>
                ELSE <<"Server conversion failed (", ToString(resp.status), ")">>
    IN base \o joinHints(resp.hints)

\* extMap: the extension fields of the request to the endpoint
extMap(format) ==
    CASE format = PDF -> ".pdf"
      [] format = DOCX -> ".docx"
      [] format = TXT -> ".txt"
      [] format = RTF -> ".rtf"
      [] format = ODT -> ".odt"

serverBridgeRetrying(req, resp) ==
    IF resp.rejected THEN Fail(<<"Failed to fetch">>, <<"POST", "POST">>)
    ELSE IF ~resp.ok THEN Fail(serverErrorMessage(resp), <<"POST", "POST">>)
    ELSE Done([type |-> getMimeType(req.targetFormat), body |-> resp.body],
              <<"POST">>)

\* the server path: one fetch, its body typed with the target's MIME type
serverBridge(req, resp) ==
    IF resp.rejected THEN Fail(<<"Failed to fetch">>, <<"POST">>)
    ELSE IF ~resp.ok THEN Fail(serverErrorMessage(resp), <<"POST">>)
    ELSE Done([type |-> getMimeType(req.targetFormat), body |-> resp.body],
              <<"POST">>)

\* the type docx's Packer.toBlob gives the package it builds
packerBlobType ==
    "application/vnd.openxmlformats-officedocument.wordprocessingml.document"

\* PDF -> DOCX with preserved layout: page images in a DOCX package
embedPageImages(req, ext) ==
    IF ext.image = "throws"
    THEN Fail(<<"page rendering failed">>, <<"embedPageImages">>)
    ELSE Done([type |-> packerBlobType, body |-> <<"docx-package", "page-images">>],
              <<"embedPageImages">>)

\* the provenance header
headerWithoutDate(req, now) ==
    <<"Converted from: ", req.file.name, "\n",
      "Original format: ", req.sourceFormat, "\n",
      "Target format: ", req.targetFormat, "\n",
      "Conversion date: ", "", "\n", "\n">>

header(req, now) ==
    <<"Converted from: ", req.file.name, "\n",
      "Original format: ", req.sourceFormat, "\n",
      "Target format: ", req.targetFormat, "\n",
      "Conversion date: ", now, "\n", "\n">>

fullTextNoPlaceholder(req, text, now) == header(req, now) \o text

\* header + (text?.trim() ? text : '(No extractable text found)')
fullText(req, text, now) ==
    header(req, now)
        \o (IF hasVisibleText(text) THEN text ELSE <<"(No extractable text found)">>)

\* esc(full).replace(/\n/g, '\\par\n'), token by token
RECURSIVE escRtf(_)
escRtf(s) ==
    IF s = <<>> THEN <<>>
    ELSE (CASE Head(s) = "\\" -> <<"\\\\">>
            [] Head(s) = "{" -> <<"\\{">>
            [] Head(s) = "}" -> <<"\\}">>
            [] Head(s) = "\n" -> <<"\\par", "\n">>
            [] OTHER -> <<Head(s)>>) \o escRtf(Tail(s))

\* one <text:p> per line of full
RECURSIVE odtParagraphs(_)
odtParagraphs(s) ==
    IF s = <<>> THEN <<"</text:p>">>
    ELSE IF Head(s) = "\n"
         THEN <<"</text:p>", "<text:p>">> \o odtParagraphs(Tail(s))
         ELSE (CASE Head(s) = "&" -> <<"&amp;">>
                 [] Head(s) = "<" -> <<"&lt;">>
                 [] OTHER -> <<Head(s)>>) \o odtParagraphs(Tail(s))

\* the builders, by target format
buildDocument(req, full, ext) ==
    LET calls == <<"extractText", "buildDocument">>
    IN CASE req.targetFormat = TXT ->
              Done([type |-> getMimeType(req.targetFormat), body |-> full], calls)
         [] req.targetFormat = RTF ->
              Done([type |-> getMimeType(req.targetFormat),
                    body |-> <<"{\\rtf1\\ansi", "\n">> \o escRtf(full) \o <<"\n", "}">>],
                   calls)
         [] req.targetFormat = DOCX ->
              IF ext.build = "throws" THEN Fail(<<"docx packing failed">>, calls)
              ELSE Done([type |-> packerBlobType,
                         body |-> <<"docx-package">> \o full], calls)
         [] req.targetFormat = ODT ->
              Done([type |-> getMimeType(req.targetFormat),
                    body |-> <<"<office:document>", "<text:p>">>
                                \o odtParagraphs(full)
                                \o <<"</office:document>">>],
                   calls)
         [] OTHER ->
              IF ext.build = "throws" THEN Fail(<<"pdf drawing failed">>, calls)
              ELSE Done([type |-> getMimeType(PDF),
                         body |-> <<"pdf-document">> \o full], calls)

\* extractText, then the builder on header + text
extractThenBuild(req, ext) ==
    IF ext.extract.throws
    THEN Fail(<<"extraction failed">>, <<"extractText">>)
    ELSE buildDocument(req, fullText(req, ext.extract.text, ext.now), ext)

serverUnavailableMsg ==
    <<"Server conversion unavailable. See health check details.">>

pdfServerBlockedMsg ==
    <<"PDF to DOCX/ODT is not supported in server mode. Disable \"Use server conversion\" or enable \"Preserve layout\" for image-based DOCX.">>

convertDocument(req, ext) ==
    IF healthGate(req) THEN Fail(serverUnavailableMsg, <<>>)
    ELSE IF pdfServerGate(req) THEN Fail(pdfServerBlockedMsg, <<>>)
    ELSE IF req.useServer THEN serverBridge(req, ext.resp)
    ELSE IF imagePathChosen(req) THEN embedPageImages(req, ext)
    ELSE extractThenBuild(req, ext)

\* the answers one call can meet: those of the collaborators on its path
externalsFor(req) ==
    IF healthGate(req) \/ pdfServerGate(req) THEN {NoAnswers}
    ELSE IF req.useServer
    THEN {[NoAnswers EXCEPT !.resp = r] : r \in ServerResponses}
    ELSE IF imagePathChosen(req)
    THEN {[NoAnswers EXCEPT !.image = i] : i \in {"ok", "throws"}}
    ELSE {e \in Externals : e.resp = NoAnswers.resp /\ e.image = NoAnswers.image
                            /\ (e.extract.throws => e.now = NoAnswers.now)
                            /\ (e.extract.throws
                                \/ req.targetFormat \in {TXT, RTF, ODT}
                                    => e.build = NoAnswers.build)}

----------------------------------------------------------------------------
(* The conversion endpoint, POST /api/convert *)

\* form.get(...) of a field that is absent
Null == "<null>"

\* what form.get('file') holds: no Blob, or a Blob with a name ("" for none);
\* isPdf tells what the uploaded bytes are, which the handler never reads
FormFiles ==
    { [isBlob |-> FALSE, name |-> "", isPdf |-> FALSE],
      [isBlob |-> TRUE, name |-> "", isPdf |-> TRUE],
      [isBlob |-> TRUE, name |-> "report.pdf", isPdf |-> TRUE],
      [isBlob |-> TRUE, name |-> "scan.PDF", isPdf |-> TRUE],
      [isBlob |-> TRUE, name |-> "notes.docx", isPdf |-> FALSE] }

TargetExtFields ==
    {Null, "", ".pdf", ".docx", ".txt", ".rtf", ".odt", ".doc", ".DOCX", "docx"}

SourceExtFields == {Null, ".pdf", ".PDF", ".docx"}

\* what import('libreoffice-convert') gives
LcModules ==
    { [throws |-> TRUE, isFunction |-> FALSE, isObject |-> FALSE,
       defaultFn |-> FALSE, convertFn |-> FALSE, convertWithOptionsFn |-> FALSE],
      [throws |-> FALSE, isFunction |-> TRUE, isObject |-> FALSE,
       defaultFn |-> FALSE, convertFn |-> FALSE, convertWithOptionsFn |-> FALSE],
      [throws |-> FALSE, isFunction |-> FALSE, isObject |-> FALSE,
       defaultFn |-> FALSE, convertFn |-> FALSE, convertWithOptionsFn |-> FALSE],
      [throws |-> FALSE, isFunction |-> FALSE, isObject |-> TRUE,
       defaultFn |-> TRUE, convertFn |-> FALSE, convertWithOptionsFn |-> TRUE] }
    \cup
    { [throws |-> FALSE, isFunction |-> FALSE, isObject |-> TRUE,
       defaultFn |-> FALSE, convertFn |-> c, convertWithOptionsFn |-> o]
        : c \in BOOLEAN, o \in BOOLEAN }

\* how the office-suite conversion ends: "" for a result, else the error message
ConvertErrors ==
    {"", "ENOENT: no such file or directory, open 'source.pdf'", "soffice timed out"}

importErrorMsg == "Cannot find module 'libreoffice-convert'"

matchesENOENTNever(msg) == FALSE

\* /ENOENT/i.test(msg)
matchesENOENT(msg) ==
    msg = "ENOENT: no such file or directory, open 'source.pdf'"

Platforms == {"win32", "darwin", "linux"}

\* process.env: LIBREOFFICE_BIN, LIBRE_OFFICE_EXE, LIBRE_OFFICE_BIN ("" for unset)
Envs ==
    { [LIBREOFFICE_BIN |-> "", LIBRE_OFFICE_EXE |-> "", LIBRE_OFFICE_BIN |-> ""],
      [LIBREOFFICE_BIN |-> "/usr/bin/soffice", LIBRE_OFFICE_EXE |-> "",
       LIBRE_OFFICE_BIN |-> ""],
      [LIBREOFFICE_BIN |-> "", LIBRE_OFFICE_EXE |-> "/opt/lo/soffice",
       LIBRE_OFFICE_BIN |-> "/snap/bin/soffice"] }

\* what fails outside the conversion: req.formData(), file.arrayBuffer(), nothing
Faults == {"none", "formData", "arrayBuffer"}

Calls ==
    [fault : Faults, file : FormFiles, targetExt : TargetExtFields,
     sourceExt : SourceExtFields, lcModule : LcModules, convertError : ConvertErrors,
     platform : Platforms, env : Envs]

NoCall ==
    [fault |-> "none", file |-> [isBlob |-> FALSE, name |-> "", isPdf |-> FALSE],
     targetExt |-> Null,
     sourceExt |-> Null,
     lcModule |-> [throws |-> TRUE, isFunction |-> FALSE, isObject |-> FALSE,
                   defaultFn |-> FALSE, convertFn |-> FALSE,
                   convertWithOptionsFn |-> FALSE],
     convertError |-> "", platform |-> "linux",
     env |-> [LIBREOFFICE_BIN |-> "", LIBRE_OFFICE_EXE |-> "", LIBRE_OFFICE_BIN |-> ""]]

NoDisposition == [type |-> "", filename |-> <<>>]

NoResponse ==
    [sent |-> FALSE, status |-> 0, json |-> FALSE, errorIsString |-> FALSE,
     errorParts |-> <<>>,
     hints |-> <<>>, contentType |-> "", disposition |-> NoDisposition,
     body |-> <<>>, calls |-> <<>>]

\* NextResponse.json({ error, hints? }, { status })
jsonError(code, errorParts, hints, calls) ==
    [sent |-> TRUE, status |-> code, json |-> TRUE, errorIsString |-> TRUE,
     errorParts |-> errorParts, hints |-> hints, contentType |-> "application/json",
     disposition |-> NoDisposition, body |-> <<>>, calls |-> calls]

\* (form.get(name) as string | null)?.toLowerCase()
lowerField(raw) == IF raw = Null THEN Null ELSE toLowerCase(raw)

\* a value is truthy as a string: neither undefined nor ''
truthy(v) == v # Null /\ v # ""

getLibreOfficeFnsConvertFirst(mod) ==
    IF mod.isFunction THEN [convert |-> TRUE, convertWithOptions |-> FALSE]
    ELSE IF mod.isObject
    THEN IF mod.defaultFn THEN [convert |-> TRUE, convertWithOptions |-> FALSE]
         ELSE [convert |-> mod.convertFn,
               convertWithOptions |-> mod.convertWithOptionsFn /\ ~mod.convertFn]
    ELSE [convert |-> FALSE, convertWithOptions |-> FALSE]

getLibreOfficeFns(mod) ==
    IF mod.isFunction THEN [convert |-> TRUE, convertWithOptions |-> FALSE]
    ELSE IF mod.isObject
    THEN IF mod.defaultFn THEN [convert |-> TRUE, convertWithOptions |-> FALSE]
         ELSE [convert |-> mod.convertFn, convertWithOptions |-> mod.convertWithOptionsFn]
    ELSE [convert |-> FALSE, convertWithOptions |-> FALSE]

\* Array.from(new Set(list)): the first occurrence of each element, in order
RECURSIVE dedup(_)
dedup(list) ==
    IF list = <<>> THEN <<>>
    ELSE LET init == dedup(SubSeq(list, 1, Len(list) - 1))
             x == list[Len(list)]
         IN IF \E i \in 1..Len(init) : init[i] = x THEN init ELSE Append(init, x)

resolveSofficeBinaryPaths(env, platform) ==
    LET envBin == IF env.LIBREOFFICE_BIN # "" THEN env.LIBREOFFICE_BIN
                  ELSE IF env.LIBRE_OFFICE_EXE # "" THEN env.LIBRE_OFFICE_EXE
                  ELSE env.LIBRE_OFFICE_BIN
        envPaths == IF envBin # "" THEN <<envBin>> ELSE <<>>
        conventional ==
            IF platform = "win32"
            THEN <<"C\\Program Files\\LibreOffice\\program\\soffice.exe",
                   "C\\Program Files (x86)\\LibreOffice\\program\\soffice.exe">>
            ELSE IF platform = "darwin"
            THEN <<"/Applications/LibreOffice.app/Contents/MacOS/soffice">>
            ELSE <<"/usr/bin/soffice", "/usr/local/bin/soffice">>
    IN dedup(SelectSeq(envPaths \o conventional, LAMBDA x : x # ""))

\* /\.pdf$/i.test((file as any).name || '')
nameEndsInPdf(name) == name \in {"report.pdf", "scan.PDF"}

\* the early rejection of PDF -> DOCX/ODT
endpointBlocks(upload, sourceExt, targetExt) ==
    /\ sourceExt = ".pdf" \/ nameEndsInPdf(upload.name)
    /\ targetExt \in {".docx", ".odt"}

\* the Content-Type of a converted body
endpointMime(targetExt) ==
    CASE targetExt = ".pdf" -> "application/pdf"
      [] targetExt = ".docx" -> "application/vnd.openxmlformats-officedocument.wordprocessingml.document"
      [] targetExt = ".doc" -> "application/msword"
      [] targetExt = ".rtf" -> "application/rtf"
      [] targetExt = ".odt" -> "application/vnd.oasis.opendocument.text"
      [] OTHER -> "application/octet-stream"

\* targetExt.replace(/^\./, '') on the extensions of the model
stripDot(targetExt) ==
    CASE targetExt = ".pdf" -> "pdf"
      [] targetExt = ".docx" -> "docx"
      [] targetExt = ".txt" -> "txt"
      [] targetExt = ".rtf" -> "rtf"
      [] targetExt = ".odt" -> "odt"
      [] targetExt = ".doc" -> "doc"
      [] OTHER -> targetExt

\* the catch of the conversion: 502 with hints
conversionFailed(call, msg, calls) ==
    LET paths == resolveSofficeBinaryPaths(call.env, call.platform)
        hints ==
            (IF matchesENOENT(msg)
             THEN << <<"Output file not found. This often means soffice did not run or failed.">>,
                     <<"Ensure LibreOffice is installed and soffice is on PATH, or set LIBREOFFICE_BIN to the full path to soffice.exe.">> >>
             ELSE <<>>)
            \o << <<"Paths tried: ">> \o paths >>
    IN jsonError(502, <<"LibreOffice conversion failed: ", msg>>, hints, calls)

\* the conversion of POST: import, pick the calling convention, convert, answer
convertOnServer(call, targetExt) ==
    IF call.lcModule.throws THEN conversionFailed(call, importErrorMsg, <<>>)
    ELSE LET fns == getLibreOfficeFns(call.lcModule)
             target == stripDot(targetExt)
             sofficeBinaryPaths == resolveSofficeBinaryPaths(call.env, call.platform)
             calls == IF fns.convertWithOptions
                      THEN <<[fn |-> "convertWithOptions", target |-> target,
                              sofficeBinaryPaths |-> sofficeBinaryPaths]>>
                      ELSE <<[fn |-> "convert", target |-> target,
                              sofficeBinaryPaths |-> <<>>]>>
         IN IF ~fns.convert /\ ~fns.convertWithOptions
            THEN jsonError(500, <<"libreoffice-convert module load failed">>, <<>>, <<>>)
            ELSE IF call.convertError # ""
            THEN conversionFailed(call, call.convertError, calls)
            ELSE [sent |-> TRUE, status |-> 200, json |-> FALSE,
                  errorIsString |-> FALSE, errorParts |-> <<>>, hints |-> <<>>,
                  contentType |-> endpointMime(targetExt),
                  disposition |-> [type |-> "attachment",
                                   filename |-> <<"converted", targetExt>>],
                  body |-> <<"office-suite-output">>, calls |-> calls]

\* export async function POST(req)
postHandler(call) ==
    LET targetExt == lowerField(call.targetExt)
        sourceExt == lowerField(call.sourceExt)
    IN IF call.fault = "formData"
       THEN jsonError(500, <<"formData failed">>, <<>>, <<>>)
       ELSE IF ~call.file.isBlob \/ ~truthy(targetExt)
       THEN jsonError(400, <<"Invalid request">>, <<>>, <<>>)
       ELSE IF call.fault = "arrayBuffer"
       THEN jsonError(500, <<"arrayBuffer failed">>, <<>>, <<>>)
       ELSE IF endpointBlocks(call.file, sourceExt, targetExt)
       THEN jsonError(400, <<"PDF to DOCX/ODT is not reliably supported by LibreOffice on the server. Use client conversion with Preserve layout or convert to TXT/RTF instead.">>, <<>>, <<>>)
       ELSE convertOnServer(call, targetExt)

----------------------------------------------------------------------------
(* The health probe, GET of the health route *)

\* what the trial conversion of 'health-check' to pdf ends with: a result, or a
\* thrown value (an Error with its message, or a value that is not an Error)
TrialOutcomes ==
    { [ok |-> TRUE, isError |-> FALSE, text |-> ""],
      [ok |-> FALSE, isError |-> TRUE, text |-> "soffice timed out"],
      [ok |-> FALSE, isError |-> FALSE, text |-> "exit code 1"] }

\* the errors of the integration library and of spawn when no binary is found
MissingBinaryOutcomes ==
    { [ok |-> FALSE, isError |-> TRUE, text |-> "Could not find soffice binary"],
      [ok |-> FALSE, isError |-> TRUE, text |-> "spawn soffice ENOENT"] }

\* the environment of a probe: with the binary missing the trial conversion
\* cannot succeed
ProbeEnvs ==
    { [lcModule |-> m, binaryMissing |-> b, trial |-> t, platform |-> p, env |-> e] :
        m \in LcModules, b \in BOOLEAN,
        t \in TrialOutcomes \cup MissingBinaryOutcomes,
        p \in Platforms, e \in Envs }
    \ { pe \in [lcModule : LcModules, binaryMissing : BOOLEAN,
                trial : TrialOutcomes \cup MissingBinaryOutcomes,
                platform : Platforms, env : Envs] :
            pe.binaryMissing # (pe.trial \in MissingBinaryOutcomes) }

NoProbeEnv ==
    [lcModule |-> [throws |-> TRUE, isFunction |-> FALSE, isObject |-> FALSE,
                   defaultFn |-> FALSE, convertFn |-> FALSE,
                   convertWithOptionsFn |-> FALSE],
     binaryMissing |-> FALSE,
     trial |-> [ok |-> TRUE, isError |-> FALSE, text |-> ""],
     platform |-> "linux",
     env |-> [LIBREOFFICE_BIN |-> "", LIBRE_OFFICE_EXE |-> "", LIBRE_OFFICE_BIN |-> ""]]

NoHealthResponse ==
    [sent |-> FALSE, status |-> 0, ok |-> FALSE, available |-> FALSE,
     message |-> <<>>, bin |-> "", calls |-> <<>>, paths |-> <<>>]

\* let message = 'LibreOffice not detected. Install LibreOffice and ...'
notDetectedMsg ==
    "LibreOffice not detected. Install LibreOffice and ensure soffice is on PATH or set LIBREOFFICE_BIN."

\* e instanceof Error ? e.message : String(e)
thrownText(e) == e.text

\* the copy of getLibreOfficeFns in the health route
getLibreOfficeFnsHealth(mod) ==
    IF mod.isFunction THEN [convert |-> TRUE, convertWithOptions |-> FALSE]
    ELSE IF mod.isObject
    THEN IF mod.defaultFn THEN [convert |-> TRUE, convertWithOptions |-> FALSE]
         ELSE [convert |-> mod.convertFn, convertWithOptions |-> mod.convertWithOptionsFn]
    ELSE [convert |-> FALSE, convertWithOptions |-> FALSE]

resolveSofficeBinaryPathsEnvLast(env, platform) ==
    LET envBin == IF env.LIBREOFFICE_BIN # "" THEN env.LIBREOFFICE_BIN
                  ELSE IF env.LIBRE_OFFICE_EXE # "" THEN env.LIBRE_OFFICE_EXE
                  ELSE env.LIBRE_OFFICE_BIN
        conventional ==
            IF platform = "win32"
            THEN <<"C\\Program Files\\LibreOffice\\program\\soffice.exe",
                   "C\\Program Files (x86)\\LibreOffice\\program\\soffice.exe">>
            ELSE IF platform = "darwin"
            THEN <<"/Applications/LibreOffice.app/Contents/MacOS/soffice">>
            ELSE <<"/usr/bin/soffice", "/usr/local/bin/soffice">>
    IN dedup(conventional \o (IF envBin # "" THEN <<envBin>> ELSE <<>>))

\* the copy of resolveSofficeBinaryPaths in the health route
resolveSofficeBinaryPathsHealth(env, platform) ==
    LET envBin == IF env.LIBREOFFICE_BIN # "" THEN env.LIBREOFFICE_BIN
                  ELSE IF env.LIBRE_OFFICE_EXE # "" THEN env.LIBRE_OFFICE_EXE
                  ELSE env.LIBRE_OFFICE_BIN
        envPaths == IF envBin # "" THEN <<envBin>> ELSE <<>>
        conventional ==
            IF platform = "win32"
            THEN <<"C\\Program Files\\LibreOffice\\program\\soffice.exe",
                   "C\\Program Files (x86)\\LibreOffice\\program\\soffice.exe">>
            ELSE IF platform = "darwin"
            THEN <<"/Applications/LibreOffice.app/Contents/MacOS/soffice">>
            ELSE <<"/usr/bin/soffice", "/usr/local/bin/soffice">>
    IN dedup(SelectSeq(envPaths \o conventional, LAMBDA x : x # ""))

healthStatusAlways200(ok) == 200

\* { status: result.ok ? 200 : 503 }
healthStatus(ok) == IF ok THEN 200 ELSE 503

trialFailedMsgGeneric(e) == <<"LibreOffice convert failed">>

\* message = `LibreOffice convert failed: ${msg}`
trialFailedMsg(e) == <<"LibreOffice convert failed: ", thrownText(e)>>

\* the trial conversion: the options-accepting call when there is one, else the
\* simple call; available only after it returned
trialConversion(pe, fns) ==
    LET sofficeBinaryPaths == resolveSofficeBinaryPathsHealth(pe.env, pe.platform)
        calls == IF fns.convertWithOptions
                 THEN <<[fn |-> "convertWithOptions", target |-> "pdf",
                         sofficeBinaryPaths |-> sofficeBinaryPaths]>>
                 ELSE <<[fn |-> "convert", target |-> "pdf",
                         sofficeBinaryPaths |-> <<>>]>>
    IN IF pe.trial.ok
       THEN [available |-> TRUE,
             message |-> <<"LibreOffice is available for server conversion.">>,
             calls |-> calls, paths |-> sofficeBinaryPaths]
       ELSE [available |-> FALSE, message |-> trialFailedMsg(pe.trial),
             calls |-> calls, paths |-> sofficeBinaryPaths]

\* the body of GET up to the response: available and message on each path
probe(pe) ==
    LET start == [available |-> FALSE, message |-> <<notDetectedMsg>>,
                  calls |-> <<>>, paths |-> <<>>]
    IN IF pe.lcModule.throws
       THEN [start EXCEPT !.message = <<"Health check error: ", importErrorMsg>>]
       ELSE LET fns == getLibreOfficeFnsHealth(pe.lcModule)
            IN IF fns.convert \/ fns.convertWithOptions
               THEN trialConversion(pe, fns)
               ELSE [start EXCEPT
                       !.message = <<"libreoffice-convert module could not be loaded.">>]

\* export async function GET() of the health route
healthHandler(pe) ==
    LET p == probe(pe)
        result == [ok |-> p.available,
                   server |-> [available |-> p.available, message |-> p.message],
                   details |-> [bin |-> pe.env.LIBREOFFICE_BIN]]
    IN [sent |-> TRUE, status |-> healthStatus(result.ok), ok |-> result.ok,
        available |-> result.server.available, message |-> result.server.message,
        bin |-> result.details.bin, calls |-> p.calls, paths |-> p.paths]

----------------------------------------------------------------------------
(* extractText on a PDF *)

\* the largest number of pages of a document
MaxPages == 2

\* needsOCR: pageText.trim().length < 20
ocrMinLength == 20

\* A page text is the string of `lead` spaces, `alnum` characters of
\* [A-Za-z0-9], `sym` other visible characters, `nul` characters \u0000 and
\* `trail` spaces, in this order.
Text(lead, alnum, sym, nul, trail) ==
    [lead |-> lead, alnum |-> alnum, sym |-> sym, nul |-> nul, trail |-> trail]

EmptyText == Text(0, 0, 0, 0, 0)

\* pageText.length
length(t) == t.lead + t.alnum + t.sym + t.nul + t.trail

\* String.prototype.trim: leading and trailing whitespace removed
trim(t) ==
    IF t.alnum + t.sym + t.nul = 0 THEN EmptyText
    ELSE [t EXCEPT !.lead = 0, !.trail = 0]

\* (pageText.match(/[A-Za-z0-9]/g) || []).length
alnumCount(t) == t.alnum

\* toPlain: s.replace(/\u0000/g, '')
toPlain(t) == [t EXCEPT !.nul = 0]

needsOCRUntrimmed(t) ==
    \/ length(t) < ocrMinLength
    \/ alnumCount(t) * 5 < length(t)

\* pageText.trim().length < 20 || alnumCount < pageText.length * 0.2
\* (for these lengths a < n * 0.2 in doubles holds exactly when 5 * a < n)
needsOCR(t) ==
    \/ length(trim(t)) < ocrMinLength
    \/ alnumCount(t) * 5 < length(t)

\* what the text layer of a page joins to
TextLayers ==
    { EmptyText,
      Text(0, 5, 0, 0, 0),
      Text(0, 19, 0, 0, 0),
      Text(0, 20, 0, 0, 0),
      Text(0, 19, 0, 0, 1),
      Text(0, 5, 20, 0, 0),
      Text(0, 4, 21, 0, 0),
      Text(2, 40, 5, 0, 1),
      Text(30, 0, 0, 0, 0),
      Text(0, 30, 0, 1, 0) }

\* a page: its text layer, or a page whose getPage / getTextContent rejects
Pages ==
    {[readable |-> TRUE, text |-> t] : t \in TextLayers}
        \cup {[readable |-> FALSE, text |-> EmptyText]}

Documents == UNION {[1..n -> Pages] : n \in 1..MaxPages}

\* how the fallback of a page goes: no 2d context, page.render rejects, the
\* import of tesseract.js or recognize rejects, or recognize gives a text
OcrOutcomes ==
    { [kind |-> k, text |-> EmptyText] : k \in {"noContext", "renderThrows", "ocrThrows"} }
        \cup { [kind |-> "text", text |-> t] :
                 t \in {EmptyText, Text(1, 0, 0, 0, 2), Text(1, 35, 3, 0, 1)} }

NoOcr == [kind |-> "notRun", text |-> EmptyText]

\* the outcomes of the fallback that can follow the text layer t
ocrOutcomesFor(t) == IF needsOCR(t) THEN OcrOutcomes ELSE {NoOcr}

ocrFallbackFailing(t, ocr) ==
    IF ocr.kind = "text" /\ length(trim(ocr.text)) > 0
    THEN [failed |-> FALSE, pageText |-> trim(ocr.text),
          calls |-> <<"render", "recognize">>]
    ELSE [failed |-> ocr.kind # "text", pageText |-> t,
          calls |-> <<"render", "recognize">>]

\* the try / catch of the fallback: the page text after it and what it called
ocrFallback(t, ocr) ==
    CASE ocr.kind = "noContext" ->
            [failed |-> FALSE, pageText |-> t, calls |-> <<>>]
      [] ocr.kind = "renderThrows" ->
            [failed |-> FALSE, pageText |-> t, calls |-> <<"render">>]
      [] ocr.kind = "ocrThrows" ->
            [failed |-> FALSE, pageText |-> t, calls |-> <<"render", "recognize">>]
      [] ocr.kind = "text" ->
            [failed |-> FALSE,
             pageText |-> IF length(trim(ocr.text)) > 0 THEN trim(ocr.text) ELSE t,
             calls |-> <<"render", "recognize">>]

\* one iteration of the loop over the pages
extractPage(t, ocr) ==
    IF needsOCR(t)
    THEN LET f == ocrFallback(t, ocr)
         IN [failed |-> f.failed, pageText |-> f.pageText, ocrPath |-> TRUE,
             calls |-> f.calls]
    ELSE [failed |-> FALSE, pageText |-> t, ocrPath |-> FALSE, calls |-> <<>>]

\* a piece of the string `out`: the text of a page, or the separator '\n\n'
TextPiece(t) == [sep |-> FALSE, text |-> t]

Separator == [sep |-> TRUE, text |-> EmptyText]

separatorAfterEveryPage(i, numPages) == <<Separator>>

\* (i < pdf.numPages ? '\n\n' : '')
separatorAfter(i, numPages) == IF i < numPages THEN <<Separator>> ELSE <<>>

\* the loop awaits each step of an iteration: page i is fetched only when the
\* iteration of the page before it has ended
canStartPage(e) == e.pc = "loop" /\ e.i <= Len(e.pages) /\ ~e.inPage

\* pages: the document; i: the loop index; inPage: the iteration of page i has
\* begun; out: the page texts appended so far; joined: the string `out`;
\* steps, events: what was done; result, returned: the page texts and the
\* string that extractText returns
NoExtraction ==
    [pc |-> "idle", pages |-> <<>>, i |-> 1, inPage |-> FALSE, out |-> <<>>,
     joined |-> <<>>, steps |-> <<>>, events |-> <<>>, result |-> <<>>,
     returned |-> <<>>]

----------------------------------------------------------------------------
(* The page *)

NoConv ==
    [pc |-> "idle", file |-> NoFile, sourceFormat |-> "", targetFormat |-> "",
     useServer |-> FALSE, health |-> NullHealth, preserveLayout |-> FALSE]

NoLast == [called |-> FALSE, req |-> NoConv, ext |-> NoAnswers, result |-> NoResult]

\* no input is being converted again
NoRepeat == [req |-> NoConv, text |-> <<>>, runs |-> <<>>]

\* no PDF has asked for a password
NoPassword == [state |-> "need", prompts |-> <<>>, supplied |-> <<>>]

NoUrl == [set |-> FALSE, blob |-> NoBlob, revoked |-> FALSE]

\* the conversion form is rendered (not the success screen)
formShown == status # "success"

userCanAct == userEvents < MaxUserEvents

\* the state after the first render and its mount effect
Init ==
    /\ sourceFormat = DOCX
    /\ targetFormat = PDF
    /\ file = NoFile
    /\ status = "idle"
    /\ errorMsg = NoError
    /\ downloadUrl = NoUrl
    /\ fileName = <<>>
    /\ progress = 0
    /\ preserveLayout = FALSE
    /\ useServer = FALSE
    /\ health = NullHealth
    /\ healthLoading = TRUE
    /\ healthReq = [active |-> TRUE, useServer |-> FALSE]
    /\ conv = NoConv
    /\ uploadInterval = FALSE
    /\ convertInterval = FALSE
    /\ staleIntervals = 0
    /\ last = NoLast
    /\ userEvents = 0
    /\ epCall = NoCall
    /\ epResp = NoResponse
    /\ hcEnv = NoProbeEnv
    /\ hcResp = NoHealthResponse
    /\ ex = NoExtraction
    /\ rep = NoRepeat
    /\ pw = NoPassword

\* source select onChange, and the effect of the render that follows
SelectSource(v) ==
    /\ formShown /\ userCanAct
    /\ v # sourceFormat
    /\ sourceFormat' = v
    /\ targetFormat' = TargetEffect(v, targetFormat)
    /\ userEvents' = userEvents + 1
    /\ UNCHANGED <<pw, file, status, errorMsg, downloadUrl, fileName, progress,
                   preserveLayout, useServer, health, healthLoading, healthReq,
                   conv, uploadInterval, convertInterval, staleIntervals, last>>

\* target select onChange: one of the options offered
SelectTarget(v) ==
    /\ formShown /\ userCanAct
    /\ \E i \in 1..Len(targetOptions(sourceFormat)) : targetOptions(sourceFormat)[i] = v
    /\ v # targetFormat
    /\ targetFormat' = TargetEffect(sourceFormat, v)
    /\ userEvents' = userEvents + 1
    /\ UNCHANGED <<pw, sourceFormat, file, status, errorMsg, downloadUrl, fileName,
                   progress, preserveLayout, useServer, health, healthLoading,
                   healthReq, conv, uploadInterval, convertInterval,
                   staleIntervals, last>>

\* handleFilesSelected (file input onChange, or a drop)
handleFilesSelected(files) ==
    /\ formShown /\ userCanAct
    /\ userEvents' = userEvents + 1
    /\ IF Len(files) > 0
       THEN LET selectedFile == files[1]
                detected == detectedFormat(selectedFile)
            IN /\ file' = selectedFile
               /\ IF detected # ""
                  THEN /\ sourceFormat' = detected
                       /\ targetFormat' =
                            TargetEffect(detected, fallbackTarget(targetFormat, detected))
                  ELSE UNCHANGED <<pw, sourceFormat, targetFormat>>
       ELSE UNCHANGED <<pw, file, sourceFormat, targetFormat>>
    /\ UNCHANGED <<pw, status, errorMsg, downloadUrl, fileName, progress,
                   preserveLayout, useServer, health, healthLoading, healthReq,
                   conv, uploadInterval, convertInterval, staleIntervals, last>>

\* "Remove file"
RemoveFile ==
    /\ formShown /\ userCanAct
    /\ file # NoFile
    /\ file' = NoFile
    /\ userEvents' = userEvents + 1
    /\ UNCHANGED <<pw, sourceFormat, targetFormat, status, errorMsg, downloadUrl,
                   fileName, progress, preserveLayout, useServer, health,
                   healthLoading, healthReq, conv, uploadInterval,
                   convertInterval, staleIntervals, last>>

\* "Preserve layout" checkbox
TogglePreserveLayout ==
    /\ formShown /\ userCanAct
    /\ preserveLayout' = ~preserveLayout
    /\ userEvents' = userEvents + 1
    /\ UNCHANGED <<pw, sourceFormat, targetFormat, file, status, errorMsg,
                   downloadUrl, fileName, progress, useServer, health,
                   healthLoading, healthReq, conv, uploadInterval,
                   convertInterval, staleIntervals, last>>

\* disabled={health?.ok === false || healthLoading}
serverToggleDisabledWhileLoading == healthLoading

\* disabled={health?.ok === false || healthLoading}
serverToggleDisabled == (~health.isNull /\ ~health.ok) \/ healthLoading

\* "Use server conversion" checkbox
ToggleUseServer ==
    /\ formShown /\ userCanAct
    /\ ~serverToggleDisabled
    /\ useServer' = ~useServer
    /\ userEvents' = userEvents + 1
    /\ UNCHANGED <<pw, sourceFormat, targetFormat, file, status, errorMsg,
                   downloadUrl, fileName, progress, preserveLayout, health,
                   healthLoading, healthReq, conv, uploadInterval,
                   convertInterval, staleIntervals, last>>

\* checkServerHealth up to its fetch ("Recheck", disabled while loading)
checkServerHealth ==
    /\ formShown /\ userCanAct
    /\ ~healthLoading
    /\ healthLoading' = TRUE
    /\ healthReq' = [active |-> TRUE, useServer |-> useServer]
    /\ userEvents' = userEvents + 1
    /\ UNCHANGED <<pw, sourceFormat, targetFormat, file, status, errorMsg,
                   downloadUrl, fileName, progress, preserveLayout, useServer,
                   health, conv, uploadInterval, convertInterval,
                   staleIntervals, last>>

\* checkServerHealth after the response was parsed
HealthResponse(data) ==
    /\ healthReq.active
    /\ health' = data
    /\ useServer' = IF ~data.ok /\ healthReq.useServer THEN FALSE ELSE useServer
    /\ healthLoading' = FALSE
    /\ healthReq' = NoHealthReq
    /\ UNCHANGED <<pw, sourceFormat, targetFormat, file, status, errorMsg,
                   downloadUrl, fileName, progress, preserveLayout, conv,
                   uploadInterval, convertInterval, staleIntervals, last,
                   userEvents>>

\* checkServerHealth when fetch or resp.json() throws
HealthCheckFails ==
    /\ healthReq.active
    /\ health' = HealthFailed
    /\ useServer' = IF healthReq.useServer THEN FALSE ELSE useServer
    /\ healthLoading' = FALSE
    /\ healthReq' = NoHealthReq
    /\ UNCHANGED <<pw, sourceFormat, targetFormat, file, status, errorMsg,
                   downloadUrl, fileName, progress, preserveLayout, conv,
                   uploadInterval, convertInterval, staleIntervals, last,
                   userEvents>>

convertDisabledWithoutFile == file = NoFile

\* Convert button: disabled={status uploading || status converting || !file}
convertDisabled == status \in {"uploading", "converting"} \/ file = NoFile

\* handleConvert up to its first await: the closure it runs with is fixed here;
\* the PDF loading task of an earlier call is not this call's
handleConvert ==
    /\ formShown /\ userCanAct
    /\ ~convertDisabled
    /\ status' = "uploading"
    /\ progress' = 0
    /\ uploadInterval' = TRUE
    /\ conv' = [pc |-> "upload", file |-> file, sourceFormat |-> sourceFormat,
                targetFormat |-> targetFormat, useServer |-> useServer,
                health |-> health, preserveLayout |-> preserveLayout]
    /\ last' = NoLast
    /\ pw' = NoPassword
    /\ userEvents' = userEvents + 1
    /\ UNCHANGED <<sourceFormat, targetFormat, file, errorMsg, downloadUrl,
                   fileName, preserveLayout, useServer, health, healthLoading,
                   healthReq, convertInterval, staleIntervals>>

\* a tick of uploadInterval
UploadTick ==
    /\ uploadInterval
    /\ IF progress >= uploadCap
       THEN /\ uploadInterval' = FALSE
            /\ progress' = uploadCap
       ELSE /\ uploadInterval' = uploadInterval
            /\ progress' = progress + progressStep
    /\ UNCHANGED <<pw, sourceFormat, targetFormat, file, status, errorMsg,
                   downloadUrl, fileName, preserveLayout, useServer, health,
                   healthLoading, healthReq, conv, convertInterval,
                   staleIntervals, last, userEvents>>

\* handleConvert after the simulated upload: convertDocument is called
UploadDone ==
    /\ conv.pc = "upload"
    /\ uploadInterval' = FALSE
    /\ progress' = uploadCap
    /\ status' = "converting"
    /\ convertInterval' = TRUE
    /\ conv' = [conv EXCEPT !.pc = "convert"]
    /\ UNCHANGED <<pw, sourceFormat, targetFormat, file, errorMsg, downloadUrl,
                   fileName, preserveLayout, useServer, health, healthLoading,
                   healthReq, staleIntervals, last, userEvents>>

\* the functional update of a convert interval
convertTickProgress(prev) ==
    IF prev >= convertCap THEN convertCap ELSE prev + progressStep

\* a tick of the convertInterval of the call in flight
ConvertTick ==
    /\ convertInterval
    /\ convertInterval' = (progress < convertCap)
    /\ progress' = convertTickProgress(progress)
    /\ UNCHANGED <<pw, sourceFormat, targetFormat, file, status, errorMsg,
                   downloadUrl, fileName, preserveLayout, useServer, health,
                   healthLoading, healthReq, conv, uploadInterval,
                   staleIntervals, last, userEvents>>

\* a tick of a convertInterval that an ended call left running
StaleTick ==
    /\ staleIntervals > 0
    /\ staleIntervals' = IF progress >= convertCap
                         THEN staleIntervals - 1 ELSE staleIntervals
    /\ progress' = convertTickProgress(progress)
    /\ UNCHANGED <<pw, sourceFormat, targetFormat, file, status, errorMsg,
                   downloadUrl, fileName, preserveLayout, useServer, health,
                   healthLoading, healthReq, conv, uploadInterval,
                   convertInterval, last, userEvents>>

convertedNameFromSelection(req) ==
    <<"converted-", req.file.parts[1], ".", getExtension(targetFormat)>>

\* `converted-${file.name.split('.')[0]}.${getExtension(targetFormat)}`
convertedName(req) ==
    <<"converted-", req.file.parts[1], ".", getExtension(req.targetFormat)>>

statusAlwaysSuccess(r) == "success"

\* setStatus('success') after the await, setStatus('error') in the catch
statusAfter(r) == IF r.ok THEN "success" ELSE "error"

\* handleConvert after convertDocument settled: the success path or the catch
ConvertSettles(ext) ==
    /\ conv.pc = "convert"
    /\ LET r == convertDocument(conv, ext)
       IN /\ last' = [called |-> TRUE, req |-> conv, ext |-> ext, result |-> r]
          /\ status' = statusAfter(r)
          /\ IF r.ok
             THEN /\ convertInterval' = FALSE
                  /\ progress' = convertCap
                  /\ downloadUrl' = [set |-> TRUE, blob |-> r.blob, revoked |-> FALSE]
                  /\ fileName' = convertedName(conv)
                  /\ errorMsg' = NoError
                  /\ UNCHANGED staleIntervals
             ELSE /\ errorMsg' = r.error
                  /\ convertInterval' = FALSE
                  /\ staleIntervals' =
                        staleIntervals + (IF convertInterval THEN 1 ELSE 0)
                  /\ UNCHANGED <<pw, progress, downloadUrl, fileName>>
    /\ conv' = NoConv
    /\ UNCHANGED <<pw, sourceFormat, targetFormat, file, preserveLayout, useServer,
                   health, healthLoading, healthReq, uploadInterval, userEvents>>

\* "Convert Another Document"
resetConverter ==
    /\ status = "success" /\ userCanAct
    /\ file' = NoFile
    /\ status' = "idle"
    /\ progress' = 0
    /\ downloadUrl' = IF downloadUrl.set
                      THEN [downloadUrl EXCEPT !.revoked = TRUE, !.blob = NoBlob]
                      ELSE downloadUrl
    /\ userEvents' = userEvents + 1
    /\ UNCHANGED <<pw, sourceFormat, targetFormat, errorMsg, fileName,
                   preserveLayout, useServer, health, healthLoading, healthReq,
                   conv, uploadInterval, convertInterval, staleIntervals, last>>

Next ==
    /\ UNCHANGED <<epVars, hcVars, exVars, repVars>>
    /\ \/ \E v \in ConversionFormat : SelectSource(v)
       \/ \E v \in ConversionFormat : SelectTarget(v)
       \/ \E files \in FileLists : handleFilesSelected(files)
       \/ RemoveFile
       \/ TogglePreserveLayout
       \/ ToggleUseServer
       \/ checkServerHealth
       \/ \E data \in HealthResponses : HealthResponse(data)
       \/ HealthCheckFails
       \/ handleConvert
       \/ UploadTick
       \/ UploadDone
       \/ ConvertTick
       \/ StaleTick
       \/ \E ext \in externalsFor(conv) : ConvertSettles(ext)
       \/ resetConverter

Spec == Init /\ [][Next]_vars

----------------------------------------------------------------------------
(* One conversion request, for every combination of what convertDocument    *)
(* reads: the formats, the mode, the health status and the layout flag      *)

HealthValues == {NullHealth, HealthFailed} \cup HealthResponses

InitDispatch ==
    /\ sourceFormat \in ConversionFormat
    /\ targetFormat \in ConversionFormat \ {sourceFormat}
    /\ file \in Files
    /\ status = "idle"
    /\ errorMsg = NoError
    /\ downloadUrl = NoUrl
    /\ fileName = <<>>
    /\ progress = 0
    /\ preserveLayout \in BOOLEAN
    /\ useServer \in BOOLEAN
    /\ health \in HealthValues
    /\ healthLoading = FALSE
    /\ healthReq = NoHealthReq
    /\ conv = NoConv
    /\ uploadInterval = FALSE
    /\ convertInterval = FALSE
    /\ staleIntervals = 0
    /\ last = NoLast
    /\ userEvents = MaxUserEvents - 1
    /\ epCall = NoCall
    /\ epResp = NoResponse
    /\ hcEnv = NoProbeEnv
    /\ hcResp = NoHealthResponse
    /\ ex = NoExtraction
    /\ rep = NoRepeat
    /\ pw = NoPassword

NextDispatch ==
    /\ UNCHANGED <<epVars, hcVars, exVars, repVars>>
    /\ \/ handleConvert
       \/ UploadTick
       \/ UploadDone
       \/ ConvertTick
       \/ StaleTick
       \/ \E ext \in externalsFor(conv) : ConvertSettles(ext)

SpecDispatch == InitDispatch /\ [][NextDispatch]_vars

----------------------------------------------------------------------------
(* One request to the endpoint, for every request and environment *)

InitEndpoint ==
    /\ sourceFormat = DOCX
    /\ targetFormat = PDF
    /\ file = NoFile
    /\ status = "idle"
    /\ errorMsg = NoError
    /\ downloadUrl = NoUrl
    /\ fileName = <<>>
    /\ progress = 0
    /\ preserveLayout = FALSE
    /\ useServer = FALSE
    /\ health = NullHealth
    /\ healthLoading = FALSE
    /\ healthReq = NoHealthReq
    /\ conv = NoConv
    /\ uploadInterval = FALSE
    /\ convertInterval = FALSE
    /\ staleIntervals = 0
    /\ last = NoLast
    /\ userEvents = 0
    /\ epCall \in Calls
    /\ epResp = NoResponse
    /\ hcEnv = NoProbeEnv
    /\ hcResp = NoHealthResponse
    /\ ex = NoExtraction
    /\ rep = NoRepeat
    /\ pw = NoPassword

\* the endpoint serves the request
POST ==
    /\ ~epResp.sent
    /\ epResp' = postHandler(epCall)
    /\ UNCHANGED <<epCall, pageVars, hcVars, exVars, repVars, pwVars>>

NextEndpoint == POST

SpecEndpoint == InitEndpoint /\ [][NextEndpoint]_vars

----------------------------------------------------------------------------
(* One health probe, for every environment *)

\* the page is not involved: its state as before any user event
PageAtRest ==
    /\ sourceFormat = DOCX
    /\ targetFormat = PDF
    /\ file = NoFile
    /\ status = "idle"
    /\ errorMsg = NoError
    /\ downloadUrl = NoUrl
    /\ fileName = <<>>
    /\ progress = 0
    /\ preserveLayout = FALSE
    /\ useServer = FALSE
    /\ health = NullHealth
    /\ healthLoading = FALSE
    /\ healthReq = NoHealthReq
    /\ conv = NoConv
    /\ uploadInterval = FALSE
    /\ convertInterval = FALSE
    /\ staleIntervals = 0
    /\ last = NoLast
    /\ userEvents = 0

InitHealth ==
    /\ PageAtRest
    /\ epCall = NoCall
    /\ epResp = NoResponse
    /\ hcEnv \in ProbeEnvs
    /\ hcResp = NoHealthResponse
    /\ ex = NoExtraction
    /\ rep = NoRepeat
    /\ pw = NoPassword

\* the health route serves a request
GET ==
    /\ ~hcResp.sent
    /\ hcResp' = healthHandler(hcEnv)
    /\ UNCHANGED <<hcEnv, pageVars, epVars, exVars, repVars, pwVars>>

NextHealth == GET

SpecHealth == InitHealth /\ [][NextHealth]_vars

----------------------------------------------------------------------------
(* One extraction of the text of a PDF, for every document *)

InitExtract ==
    /\ PageAtRest
    /\ epCall = NoCall
    /\ epResp = NoResponse
    /\ hcEnv = NoProbeEnv
    /\ hcResp = NoHealthResponse
    /\ \E pages \in Documents :
          ex = [NoExtraction EXCEPT !.pc = "loop", !.pages = pages]
    /\ rep = NoRepeat
    /\ pw = NoPassword

\* await pdf.getPage(i) and await page.getTextContent() of iteration i
StartPage ==
    /\ canStartPage(ex)
    /\ IF ex.pages[ex.i].readable
       THEN ex' = [ex EXCEPT !.inPage = TRUE,
                             !.events = Append(ex.events,
                                               [kind |-> "start", page |-> ex.i])]
       ELSE ex' = [ex EXCEPT !.pc = "failed"]
    /\ UNCHANGED <<pageVars, epVars, hcVars, repVars, pwVars>>

\* the rest of iteration i: the heuristic, the fallback, out += ...
ExtractPage(ocr) ==
    /\ ex.pc = "loop"
    /\ ex.i <= Len(ex.pages)
    /\ ex.inPage
    /\ ocr \in ocrOutcomesFor(ex.pages[ex.i].text)
    /\ LET page == ex.pages[ex.i]
           r == extractPage(page.text, ocr)
       IN IF ~page.readable \/ r.failed
          THEN ex' = [ex EXCEPT !.pc = "failed"]
          ELSE ex' = [ex EXCEPT !.i = ex.i + 1,
                                !.inPage = FALSE,
                                !.out = Append(ex.out, r.pageText),
                                !.joined = ex.joined \o <<TextPiece(r.pageText)>>
                                              \o separatorAfter(ex.i, Len(ex.pages)),
                                !.events = Append(ex.events,
                                                  [kind |-> "end", page |-> ex.i]),
                                !.steps = Append(ex.steps,
                                                 [ocrPath |-> r.ocrPath, ocr |-> ocr,
                                                  calls |-> r.calls])]
    /\ UNCHANGED <<pageVars, epVars, hcVars, repVars, pwVars>>

\* return toPlain(out): the page texts, joined by '\n\n', without \u0000
ExtractReturn ==
    /\ ex.pc = "loop"
    /\ ex.i > Len(ex.pages)
    /\ ex' = [ex EXCEPT !.pc = "done",
                        !.result = [k \in 1..Len(ex.out) |-> toPlain(ex.out[k])],
                        !.returned = [k \in 1..Len(ex.joined) |->
                                        [ex.joined[k] EXCEPT
                                           !.text = toPlain(ex.joined[k].text)]]]
    /\ UNCHANGED <<pageVars, epVars, hcVars, repVars, pwVars>>

NextExtract ==
    \/ StartPage
    \/ \E ocr \in OcrOutcomes \cup {NoOcr} : ExtractPage(ocr)
    \/ ExtractReturn

SpecExtract == InitExtract /\ [][NextExtract]_vars

----------------------------------------------------------------------------
(* convertDocument called more than once on one TXT file with TXT as target *)

MaxRuns == 2

\* the collaborators of one run: file.text() gives the same text every time,
\* new Date().toLocaleString() gives the clock's reading
repeatAnswers(text, now) ==
    [NoAnswers EXCEPT !.extract = [throws |-> FALSE, text |-> text], !.now = now]

InitRepeat ==
    /\ PageAtRest /\ epCall = NoCall /\ epResp = NoResponse
    /\ hcEnv = NoProbeEnv /\ hcResp = NoHealthResponse
    /\ ex = NoExtraction
    /\ pw = NoPassword
    /\ \E f \in Files, text \in Texts, h \in HealthValues, layout \in BOOLEAN :
          rep = [req |-> [pc |-> "convert", file |-> f, sourceFormat |-> TXT,
                          targetFormat |-> TXT, useServer |-> FALSE,
                          health |-> h, preserveLayout |-> layout],
                 text |-> text, runs |-> <<>>]

\* one more call of convertDocument(file, TXT, TXT) when the clock reads `now`
RunAgain(now) ==
    /\ Len(rep.runs) < MaxRuns
    /\ rep' = [rep EXCEPT !.runs =
                 Append(rep.runs,
                        [now |-> now,
                         result |-> convertDocument(rep.req,
                                                    repeatAnswers(rep.text, now))])]
    /\ UNCHANGED <<pageVars, epVars, hcVars, exVars, pwVars>>

NextRepeat == \E now \in Dates : RunAgain(now)

SpecRepeat == InitRepeat /\ [][NextRepeat]_vars

----------------------------------------------------------------------------
(* The conversion of a PDF that may be password-protected *)

MaxPrompts == 3

\* a PDF that opens only with its password
ProtectedFile == [name |-> "locked.pdf", parts |-> <<"locked", "pdf">>]

OpenFile == [name |-> "report.pdf", parts |-> <<"report", "pdf">>]

isProtected(f) == f = ProtectedFile

\* the password of ProtectedFile
Password == "secret"

\* what window.prompt returns: null on Cancel, else the text entered
PromptAnswers == {Null, "", "guess", Password}

\* reason === 1 ? '...' : '...'
passwordMessage(reason) ==
    IF reason = 1 THEN "This PDF is password protected. Enter password:"
    ELSE "Incorrect password. Try again:"

\* the reason the loading task gives: 1 the first time, 2 after a wrong password
passwordReason(p) == IF p.state = "need" THEN 1 ELSE 2

\* the call reaches extractText on the PDF, whose loading task has onPassword
promptsForPassword(req) ==
    /\ isProtected(req.file)
    /\ req.sourceFormat = PDF
    /\ ~healthGate(req) /\ ~pdfServerGate(req)
    /\ ~req.useServer
    /\ ~imagePathChosen(req)

extractionMayStartAtOnce(req, p) == TRUE

\* await loadingTask.promise: the loop begins when the document has loaded
extractionMayStart(req, p) == promptsForPassword(req) => p.state = "accepted"

\* the onPassword callback: prompt, and updatePassword(pwd) if pwd is truthy;
\* the loading task then tries pwd; with no call of updatePassword the task
\* stays as it is and its promise is never settled
onPasswordResult(p, answer) ==
    [state |-> IF ~truthy(answer) THEN "abandoned"
               ELSE IF answer = Password THEN "accepted" ELSE "incorrect",
     prompts |-> Append(p.prompts, passwordMessage(passwordReason(p))),
     supplied |-> IF truthy(answer) THEN Append(p.supplied, answer) ELSE p.supplied]

InitPassword ==
    /\ sourceFormat = PDF
    /\ targetFormat \in ConversionFormat \ {sourceFormat}
    /\ file \in {ProtectedFile, OpenFile}
    /\ status = "idle"
    /\ errorMsg = NoError
    /\ downloadUrl = NoUrl
    /\ fileName = <<>>
    /\ progress = 0
    /\ preserveLayout \in BOOLEAN
    /\ useServer = FALSE
    /\ health \in HealthValues
    /\ healthLoading = FALSE
    /\ healthReq = NoHealthReq
    /\ conv = NoConv
    /\ uploadInterval = FALSE
    /\ convertInterval = FALSE
    /\ staleIntervals = 0
    /\ last = NoLast
    /\ userEvents = MaxUserEvents - 1
    /\ epCall = NoCall
    /\ epResp = NoResponse
    /\ hcEnv = NoProbeEnv
    /\ hcResp = NoHealthResponse
    /\ ex = NoExtraction
    /\ rep = NoRepeat
    /\ pw = NoPassword

\* the loading task asks for a password and the user answers the prompt
onPassword(answer) ==
    /\ conv.pc = "convert"
    /\ promptsForPassword(conv)
    /\ pw.state \in {"need", "incorrect"}
    /\ (truthy(answer) /\ answer # Password) => Len(pw.prompts) + 1 < MaxPrompts
    /\ pw' = onPasswordResult(pw, answer)
    /\ UNCHANGED pageVars

\* convertDocument settles: not before the document has loaded; without
\* onPassword (the image path) a protected PDF fails to load
PdfConvertSettles(ext) ==
    /\ extractionMayStart(conv, pw)
    /\ (isProtected(conv.file) /\ imagePathChosen(conv)) => ext.image = "throws"
    /\ ConvertSettles(ext)

\* what a step of the conversion leaves alone
restUnchanged == UNCHANGED <<epVars, hcVars, exVars, repVars>>

NextPassword ==
    /\ restUnchanged
    /\ \/ handleConvert
       \/ UploadTick
       \/ UploadDone
       \/ ConvertTick
       \/ StaleTick
       \/ \E answer \in PromptAnswers : onPassword(answer)
       \/ \E ext \in externalsFor(conv) : PdfConvertSettles(ext)

SpecPassword == InitPassword /\ [][NextPassword]_vars

\* the 2 s timeout fires, the modal prompt is answered, and the collaborators
\* of convertDocument answer
SpecPasswordFair ==
    /\ SpecPassword
    /\ WF_vars(UploadDone /\ restUnchanged)
    /\ WF_vars(restUnchanged /\ \E answer \in PromptAnswers : onPassword(answer))
    /\ WF_vars(restUnchanged /\ \E ext \in externalsFor(conv) : PdfConvertSettles(ext))

----------------------------------------------------------------------------
(* Properties *)

Range(seq) == {seq[i] : i \in 1..Len(seq)}

\* the request of the convertDocument call that ended, and what it did
lastReq == last.req
lastCalls == last.result.calls

\* C1: in every reachable state of the page the selected target format differs
\* from the selected source format, and the conversion in flight was started
\* with a target format different from its source format.
C1_TargetNeverEqualsSource ==
    /\ targetFormat # sourceFormat
    /\ conv.pc # "idle" => conv.targetFormat # conv.sourceFormat

\* a conversion runs after the source select was set to the target's value (PDF)
\* and the effect moved the target away (README is not a detected file name)
C1_Witness ==
    /\ conv.pc = "upload"
    /\ conv.sourceFormat = PDF
    /\ conv.targetFormat = DOCX
    /\ conv.file.name = "README"

\* C2: a server-mode request from PDF to DOCX or ODT fails with an error and
\* sends no request to /api/convert, whatever the health status and the
\* layout-preservation flag.
C2_PdfServerPairBlocked ==
    (/\ last.called
     /\ lastReq.useServer
     /\ lastReq.sourceFormat = PDF
     /\ lastReq.targetFormat \in {DOCX, ODT})
        => /\ ~last.result.ok
           /\ last.result.error # NoError
           /\ "POST" \notin Range(lastCalls)
           /\ status = "error"

\* a PDF -> ODT request in server mode with a healthy server and the flag set ended
C2_Witness ==
    /\ last.called
    /\ lastReq.useServer
    /\ lastReq.sourceFormat = PDF
    /\ lastReq.targetFormat = ODT
    /\ lastReq.health.ok
    /\ lastReq.preserveLayout

\* C3: a server-mode request made while the last known health status is
\* unavailable fails at once with the explanatory error, for every pair of
\* formats, and no call at all (no request to the endpoint) is made.
C3_UnavailableServerFailsAtOnce ==
    (/\ last.called
     /\ lastReq.useServer
     /\ ~lastReq.health.isNull
     /\ ~lastReq.health.ok)
        => /\ ~last.result.ok
           /\ last.result.error = serverUnavailableMsg
           /\ lastCalls = <<>>
           /\ status = "error"

\* a TXT -> RTF request in server mode ended while health was unavailable
C3_Witness ==
    /\ last.called
    /\ lastReq.useServer
    /\ ~lastReq.health.isNull
    /\ ~lastReq.health.ok
    /\ lastReq.sourceFormat = TXT
    /\ lastReq.targetFormat = RTF

\* C4: a server-mode request that passes both gates makes exactly one POST to
\* the endpoint and nothing else (no text extraction, no builder, no page-image
\* embedding, even with the layout flag set); when it succeeds, its artifact is
\* the body of the response.
C4_ServerPathOnly ==
    (/\ last.called
     /\ lastReq.useServer
     /\ ~healthGate(lastReq)
     /\ ~pdfServerGate(lastReq))
        => /\ lastCalls = <<"POST">>
           /\ last.result.ok <=> (last.ext.resp.ok /\ ~last.ext.resp.rejected)
           /\ last.result.ok => /\ last.result.blob.body = last.ext.resp.body
                                /\ downloadUrl.blob = last.result.blob

\* a server-mode request with the layout flag set returned the response's body
C4_Witness ==
    /\ last.called
    /\ lastReq.useServer
    /\ lastReq.preserveLayout
    /\ last.result.ok
    /\ lastCalls = <<"POST">>

\* C5: in client mode the page-image path runs exactly when the source is PDF,
\* the target DOCX and the layout flag set, and then the text extractor does not
\* run; in every other case the text extractor runs first and the builder runs
\* after it, on the header and the extracted text.
C5_ClientPathChoice ==
    (last.called /\ ~lastReq.useServer)
        => LET images == /\ lastReq.sourceFormat = PDF
                         /\ lastReq.targetFormat = DOCX
                         /\ lastReq.preserveLayout
               full == fullText(lastReq, last.ext.extract.text, last.ext.now)
           IN /\ ("embedPageImages" \in Range(lastCalls)) <=> images
              /\ images => lastCalls = <<"embedPageImages">>
              /\ ~images =>
                    /\ lastCalls = IF last.ext.extract.throws
                                   THEN <<"extractText">>
                                   ELSE <<"extractText", "buildDocument">>
                    /\ (last.result.ok /\ lastReq.targetFormat \in {DOCX, PDF})
                          => Tail(last.result.blob.body) = full
                    /\ (last.result.ok /\ lastReq.targetFormat = TXT)
                          => last.result.blob.body = full

\* a client-mode PDF -> DOCX request with the flag set built its artifact from
\* page images
C5_Witness ==
    /\ last.called
    /\ ~lastReq.useServer
    /\ lastReq.sourceFormat = PDF
    /\ lastReq.targetFormat = DOCX
    /\ lastReq.preserveLayout
    /\ last.result.ok
    /\ lastCalls = <<"embedPageImages">>

\* C6: a request in which a step failed ends in status 'error' with that one
\* error message, no step having run twice, and status 'success' is reported
\* only for a request whose convertDocument call succeeded.
C6_FailureEndsInError ==
    /\ (last.called /\ ~last.result.ok)
          => /\ status = "error"
             /\ errorMsg = last.result.error
             /\ errorMsg # NoError
             /\ conv.pc = "idle"
             /\ Cardinality(Range(lastCalls)) = Len(lastCalls)
    /\ status = "success" => last.called /\ last.result.ok
    /\ status = "error" => last.called /\ ~last.result.ok

\* a request ended in error after its one POST failed
C6_Witness ==
    /\ status = "error"
    /\ last.called
    /\ lastCalls = <<"POST">>
    /\ lastReq.sourceFormat = DOCX
    /\ lastReq.targetFormat = PDF

\* the MIME type the format catalog gives each format
C7_CatalogMime(format) ==
    CASE format = PDF -> "application/pdf"
      [] format = DOCX -> "application/vnd.openxmlformats-officedocument.wordprocessingml.document"
      [] format = TXT -> "text/plain"
      [] format = RTF -> "application/rtf"
      [] format = ODT -> "application/vnd.oasis.opendocument.text"

\* C7: for every pair of distinct formats and every mode, a conversion that
\* succeeds gives a non-empty artifact whose declared MIME type is that of the
\* target format (the blocked server pairs never succeed).
C7_ArtifactTypedAsTarget ==
    (/\ last.called
     /\ last.result.ok
     /\ lastReq.sourceFormat # lastReq.targetFormat)
        => /\ last.result.blob.body # <<>>
           /\ last.result.blob.type = C7_CatalogMime(lastReq.targetFormat)
           /\ downloadUrl.set /\ downloadUrl.blob = last.result.blob
           /\ ~pdfServerGate(lastReq)

\* a client-mode ODT -> RTF conversion succeeded
C7_Witness ==
    /\ last.called
    /\ last.result.ok
    /\ ~lastReq.useServer
    /\ lastReq.sourceFormat = ODT
    /\ lastReq.targetFormat = RTF

\* C8 as stated: for every extracted text, the empty and the whitespace-only
\* ones included, the TXT artifact built in client mode is the header followed
\* by the extracted text.
C8_Original ==
    (/\ last.called
     /\ last.result.ok
     /\ ~lastReq.useServer
     /\ lastReq.targetFormat = TXT)
        => last.result.blob.body
              = header(lastReq, last.ext.now) \o last.ext.extract.text

\* C8 as amended: the TXT artifact built in client mode is the header followed
\* by the extracted text, unmodified, when the text has a character that is not
\* whitespace, and the header followed by '(No extractable text found)' when
\* the text is empty or whitespace only.
C8_TxtIsHeaderPlusText ==
    (/\ last.called
     /\ last.result.ok
     /\ ~lastReq.useServer
     /\ lastReq.targetFormat = TXT)
        => last.result.blob.body
              = header(lastReq, last.ext.now)
                   \o (IF \E i \in 1..Len(last.ext.extract.text) :
                             last.ext.extract.text[i] \notin {" ", "\n"}
                       THEN last.ext.extract.text
                       ELSE <<"(No extractable text found)">>)

\* a TXT artifact was built in client mode from a whitespace-only text
C8_Witness ==
    /\ last.called
    /\ last.result.ok
    /\ ~lastReq.useServer
    /\ lastReq.targetFormat = TXT
    /\ last.ext.extract.text = <<" ">>

\* C9 as stated: every successful POST whose target extension is one of .pdf,
\* .docx, .txt, .rtf, .odt answers with the MIME type of that format as
\* Content-Type and with a Content-Disposition of type attachment.
C9_ContentTypeIsTargetMime ==
    (epResp.sent /\ epResp.status = 200)
        => \A format \in ConversionFormat :
              lowerField(epCall.targetExt) = extMap(format)
                 => /\ epResp.contentType = getMimeType(format)
                    /\ epResp.disposition.type = "attachment"

\* the request is well formed: a file and a target extension, nothing throws
\* while it is read, and the pair is not the blocked one
C10_Wellformed ==
    /\ epCall.fault = "none"
    /\ epCall.file.isBlob
    /\ truthy(lowerField(epCall.targetExt))
    /\ ~endpointBlocks(epCall.file, lowerField(epCall.sourceExt),
                       lowerField(epCall.targetExt))

\* the integration module gives a function to convert with
C10_Callable ==
    /\ ~epCall.lcModule.throws
    /\ getLibreOfficeFns(epCall.lcModule).convert
          \/ getLibreOfficeFns(epCall.lcModule).convertWithOptions

\* C10 as stated: every failing POST answers JSON with a string error and a
\* status among 400, 500, 502: 400 when the file or targetExt is missing or the
\* pair is blocked, 502 when the office-suite conversion fails, 500 when the
\* integration module cannot be loaded or on any other unexpected error; a
\* response with status 200 is a conversion that succeeded.
C10_FailureStatuses ==
    epResp.sent =>
        /\ epResp.status \in {200, 400, 500, 502}
        /\ epResp.status # 200 => epResp.json /\ epResp.errorIsString
        /\ epResp.status = 200 =>
              C10_Wellformed /\ C10_Callable /\ epCall.convertError = ""
        /\ (epCall.fault = "none" /\ ~C10_Wellformed) => epResp.status = 400
        /\ epCall.fault = "formData" => epResp.status = 500
        /\ (C10_Wellformed /\ ~C10_Callable) => epResp.status = 500
        /\ (C10_Wellformed /\ C10_Callable /\ epCall.convertError # "")
              => epResp.status = 502

\* the uploaded document is a PDF: by its bytes, by the sourceExt field or by
\* its file name
C11_SourceIsPdf ==
    /\ epCall.file.isBlob
    /\ \/ epCall.file.isPdf
       \/ lowerField(epCall.sourceExt) = ".pdf"
       \/ nameEndsInPdf(epCall.file.name)

\* the target extension names DOCX or ODT, in any case, with or without the dot
C11_TargetIsDocxOrOdt ==
    truthy(lowerField(epCall.targetExt))
        /\ stripDot(lowerField(epCall.targetExt)) \in {"docx", "odt"}

\* C11 as stated: every POST whose source is PDF and whose target is DOCX or
\* ODT is answered with an error and the office suite is never invoked, however
\* the request identifies the source (sourceExt, file name, neither) and however
\* targetExt is spelled.
C11_PdfPairRejectedByEndpoint ==
    (epResp.sent /\ C11_SourceIsPdf /\ C11_TargetIsDocxOrOdt)
        => /\ epResp.status # 200
           /\ epResp.json /\ epResp.errorIsString
           /\ epResp.calls = <<>>

\* the probe got as far as the trial conversion
trialRan ==
    /\ ~hcEnv.lcModule.throws
    /\ getLibreOfficeFnsHealth(hcEnv.lcModule).convert
          \/ getLibreOfficeFnsHealth(hcEnv.lcModule).convertWithOptions

\* C12: every response of the health probe has ok equal to server.available,
\* status 200 exactly when ok is true and 503 exactly when ok is false, on each
\* path of the probe.
C12_HealthStatusFollowsOk ==
    hcResp.sent =>
        /\ hcResp.ok = hcResp.available
        /\ hcResp.status = 200 <=> hcResp.ok
        /\ hcResp.status = 503 <=> ~hcResp.ok

\* a probe whose module import failed answered 503
C12_Witness ==
    /\ hcResp.sent
    /\ hcEnv.lcModule.throws
    /\ hcResp.status = 503
    /\ ~hcResp.ok

\* texts that tell how to get the office suite installed or found
C13_InstallHints == {notDetectedMsg}

\* C13 as stated: when the binary is missing, so that the trial conversion of
\* the probe fails, the probe answers ok = false with a message that contains an
\* installation hint.
C13_MissingBinaryGivesInstallHint ==
    (hcResp.sent /\ trialRan /\ hcEnv.binaryMissing)
        => /\ ~hcResp.ok
           /\ \E i \in 1..Len(hcResp.message) : hcResp.message[i] \in C13_InstallHints

\* C14: the probe reports available = true if and only if the trial conversion
\* completed without error; when an error is thrown during the probe (by the
\* import or by the trial conversion), available is false and the message holds
\* the thrown error's message unchanged.
C14_AvailableIffTrialSucceeded ==
    hcResp.sent =>
        /\ hcResp.available <=> (trialRan /\ hcEnv.trial.ok)
        /\ hcEnv.lcModule.throws
              => /\ ~hcResp.available
                 /\ importErrorMsg \in Range(hcResp.message)
        /\ (trialRan /\ ~hcEnv.trial.ok)
              => /\ ~hcResp.available
                 /\ hcEnv.trial.text \in Range(hcResp.message)

\* the trial conversion of a probe timed out
C14_Witness ==
    /\ hcResp.sent
    /\ trialRan
    /\ hcEnv.trial.text = "soffice timed out"
    /\ ~hcResp.available

\* the path the environment configures ("" for none)
C15_EnvPath ==
    IF hcEnv.env.LIBREOFFICE_BIN # "" THEN hcEnv.env.LIBREOFFICE_BIN
    ELSE IF hcEnv.env.LIBRE_OFFICE_EXE # "" THEN hcEnv.env.LIBRE_OFFICE_EXE
    ELSE hcEnv.env.LIBRE_OFFICE_BIN

\* the install locations the routes list for each platform, as they spell them
C15_Conventional(platform) ==
    CASE platform = "win32" ->
            {"C\\Program Files\\LibreOffice\\program\\soffice.exe",
             "C\\Program Files (x86)\\LibreOffice\\program\\soffice.exe"}
      [] platform = "darwin" ->
            {"/Applications/LibreOffice.app/Contents/MacOS/soffice"}
      [] platform = "linux" -> {"/usr/bin/soffice", "/usr/local/bin/soffice"}

\* C15: the list resolveSofficeBinaryPaths returns is not empty and has no
\* duplicates; the environment-configured path, when set, is its first element;
\* the rest are the install locations of the current platform and of no other;
\* the endpoint and the health probe resolve the same list.
C15_PathsEnvFirstThenPlatform ==
    (hcResp.sent /\ trialRan) =>
        LET paths == hcResp.paths
            rest == IF C15_EnvPath # "" THEN Tail(paths) ELSE paths
        IN /\ paths # <<>>
           /\ Cardinality(Range(paths)) = Len(paths)
           /\ C15_EnvPath # "" => paths[1] = C15_EnvPath
           /\ Range(rest) = C15_Conventional(hcEnv.platform) \ {C15_EnvPath}
           /\ \A other \in Platforms \ {hcEnv.platform} :
                 Range(rest) \cap C15_Conventional(other) = {}
           /\ paths = resolveSofficeBinaryPaths(hcEnv.env, hcEnv.platform)

\* on Linux with LIBREOFFICE_BIN naming one of the conventional locations the
\* list holds that path once, first
C15_Witness ==
    /\ hcResp.sent
    /\ trialRan
    /\ hcEnv.platform = "linux"
    /\ hcEnv.env.LIBREOFFICE_BIN = "/usr/bin/soffice"
    /\ hcResp.paths = <<"/usr/bin/soffice", "/usr/local/bin/soffice">>

\* C16 as stated: on Windows the candidate list contains the install path
\* C:\Program Files\LibreOffice\program\soffice.exe that the README names.
C16_WindowsListHasReadmePath ==
    (/\ epResp.sent
     /\ epCall.platform = "win32"
     /\ epResp.calls # <<>>
     /\ epResp.calls[1].fn = "convertWithOptions")
        => "C:\\Program Files\\LibreOffice\\program\\soffice.exe"
              \in Range(epResp.calls[1].sofficeBinaryPaths)

\* the request reached the conversion step
C17_ReachedConversion == C10_Wellformed /\ C10_Callable

\* C17 as stated: a POST that reaches the conversion step invokes exactly one
\* calling convention, once: the options-accepting call, with the resolved
\* binary paths, whenever the integration module exposes it, and the simple call
\* only otherwise.
C17_Original ==
    (epResp.sent /\ C17_ReachedConversion) =>
        /\ Len(epResp.calls) = 1
        /\ epCall.lcModule.convertWithOptionsFn
              => /\ epResp.calls[1].fn = "convertWithOptions"
                 /\ epResp.calls[1].sofficeBinaryPaths
                       = resolveSofficeBinaryPaths(epCall.env, epCall.platform)
        /\ ~epCall.lcModule.convertWithOptionsFn => epResp.calls[1].fn = "convert"

\* C17 as amended: a POST that reaches the conversion step invokes exactly one
\* calling convention, once: the options-accepting call, with the resolved
\* binary paths, when the module is an object that has no function as its
\* default export and has a function convertWithOptions; the simple call in
\* every other case (a module that is a function or has a function as default
\* export is called the simple way even if it carries convertWithOptions).
C17_OneConventionOnce ==
    (epResp.sent /\ C17_ReachedConversion) =>
        LET found == /\ epCall.lcModule.isObject
                     /\ ~epCall.lcModule.defaultFn
                     /\ epCall.lcModule.convertWithOptionsFn
        IN /\ Len(epResp.calls) = 1
           /\ found => /\ epResp.calls[1].fn = "convertWithOptions"
                       /\ epResp.calls[1].sofficeBinaryPaths
                             = resolveSofficeBinaryPaths(epCall.env, epCall.platform)
           /\ ~found => epResp.calls[1].fn = "convert"

\* a module whose default export is a function and which carries
\* convertWithOptions was called the simple way, once, and the conversion returned
C17_Witness ==
    /\ epResp.sent
    /\ epResp.status = 200
    /\ epCall.lcModule.defaultFn
    /\ epCall.lcModule.convertWithOptionsFn
    /\ Len(epResp.calls) = 1
    /\ epResp.calls[1].fn = "convert"

\* C18: whenever the office-suite conversion fails, the error response carries
\* hints that contain the list of binary paths resolved for that call, and
\* contain the installation/PATH hint exactly when the error is an ENOENT one.
C18_HintsOnConversionFailure ==
    (epResp.sent /\ C17_ReachedConversion /\ epCall.convertError # "") =>
        LET paths == resolveSofficeBinaryPaths(epCall.env, epCall.platform)
            installHint == <<"Ensure LibreOffice is installed and soffice is on PATH, or set LIBREOFFICE_BIN to the full path to soffice.exe.">>
            isENOENT == epCall.convertError
                           = "ENOENT: no such file or directory, open 'source.pdf'"
        IN /\ epResp.status = 502
           /\ (<<"Paths tried: ">> \o paths) \in Range(epResp.hints)
           /\ epResp.calls[1].fn = "convertWithOptions"
                 => epResp.calls[1].sofficeBinaryPaths = paths
           /\ (installHint \in Range(epResp.hints)) <=> isENOENT

\* a conversion failed with ENOENT on Windows and the response lists the paths
C18_Witness ==
    /\ epResp.sent
    /\ epResp.status = 502
    /\ epCall.platform = "win32"
    /\ epCall.convertError = "ENOENT: no such file or directory, open 'source.pdf'"
    /\ Len(epResp.hints) = 3
    /\ Len(epResp.calls) = 1

\* C19 as stated: for every page, the OCR path is entered if the text layer
\* yields fewer than 20 characters or fewer than 20% of its characters are
\* alphanumeric, and is not entered otherwise.
C19_Original ==
    \A k \in 1..Len(ex.steps) :
        ex.steps[k].ocrPath
            <=> \/ length(ex.pages[k].text) < 20
                \/ alnumCount(ex.pages[k].text) * 5 < length(ex.pages[k].text)

\* C19 as amended: for every page, the OCR path is entered if the text layer,
\* with leading and trailing whitespace removed, has fewer than 20 characters,
\* or if fewer than 20% of all its characters are alphanumeric, and is not
\* entered otherwise.
C19_OcrTrigger ==
    \A k \in 1..Len(ex.steps) :
        LET t == ex.pages[k].text
            visible == IF t.alnum + t.sym + t.nul = 0 THEN 0
                       ELSE t.alnum + t.sym + t.nul
        IN ex.steps[k].ocrPath
              <=> \/ visible < 20
                  \/ 5 * t.alnum < t.lead + t.alnum + t.sym + t.nul + t.trail

\* a page of 20 characters, 19 letters and a trailing space, went the OCR way,
\* and a page of 25 characters with 5 letters did not
C19_Witness ==
    /\ Len(ex.steps) = 2
    /\ ex.pages[1].text = Text(0, 19, 0, 0, 1)
    /\ ex.steps[1].ocrPath
    /\ ex.pages[2].text = Text(0, 5, 20, 0, 0)
    /\ ~ex.steps[2].ocrPath

\* C20: if rendering or OCR of a page throws, or OCR returns an empty (or blank)
\* text, extraction does not fail: the page keeps its text-layer output (without
\* \u0000, as every extracted text) and the following pages are extracted.
C20_OcrFailureKeepsTextLayer ==
    /\ \A k \in 1..Len(ex.steps) :
          LET st == ex.steps[k]
              kept == \/ st.ocr.kind \in {"renderThrows", "ocrThrows"}
                      \/ st.ocr.kind = "text"
                            /\ st.ocr.text.alnum + st.ocr.text.sym + st.ocr.text.nul = 0
          IN (st.ocrPath /\ kept) =>
                /\ ex.out[k] = ex.pages[k].text
                /\ ex.pc = "done" => ex.result[k] = [ex.pages[k].text EXCEPT !.nul = 0]
    /\ ex.pc = "failed" => ~ex.pages[ex.i].readable
    /\ ex.pc = "done" => Len(ex.result) = Len(ex.pages)

\* the OCR of the first page threw, its empty text layer was kept and the
\* second page was extracted
C20_Witness ==
    /\ ex.pc = "done"
    /\ Len(ex.pages) = 2
    /\ ex.steps[1].ocr.kind = "ocrThrows"
    /\ ex.pages[1].text = EmptyText
    /\ ex.result[1] = EmptyText
    /\ ex.result[2] = Text(0, 20, 0, 0, 0)

\* C21: the pages of a PDF are extracted one at a time in increasing order (no
\* page is begun before the page before it has ended, its OCR included), and
\* for n pages the returned string is the n page texts in page order with
\* exactly one blank-line separator between consecutive pages and none after
\* the last.
C21_PagesInOrderJoinedByBlankLines ==
    /\ \A k \in 1..Len(ex.events) :
          ex.events[k] = [kind |-> IF k % 2 = 1 THEN "start" ELSE "end",
                          page |-> (k + 1) \div 2]
    /\ ex.pc = "done" =>
          LET n == Len(ex.pages)
          IN /\ Len(ex.returned) = 2 * n - 1
             /\ \A k \in 1..n :
                   /\ ~ex.returned[2 * k - 1].sep
                   /\ ex.returned[2 * k - 1].text = ex.result[k]
             /\ \A k \in 1..(n - 1) : ex.returned[2 * k].sep

\* a document of two pages, the first of which went through OCR, was returned
C21_Witness ==
    /\ ex.pc = "done"
    /\ Len(ex.pages) = 2
    /\ ex.steps[1].ocrPath
    /\ ex.steps[1].calls = <<"render", "recognize">>
    /\ Len(ex.returned) = 3
    /\ Len(ex.events) = 4

\* the position of the date in the header
datePosition == 11

C23_TargetChoicesExcludeSource ==
    LET options == targetOptions(sourceFormat)
    IN /\ Range(options) = ConversionFormat \ {sourceFormat}
       /\ \A i, j \in 1..Len(options) : options[i] = options[j] => i = j
       /\ \A i \in 1..Len(options) : options[i] # sourceFormat

\* the user changed the source to the format that was the target, and the
\* form with the two selects is shown
C23_Witness ==
    /\ formShown
    /\ userEvents > 0
    /\ sourceFormat = PDF
    /\ targetFormat # PDF
    /\ Len(targetOptions(sourceFormat)) = Cardinality(ConversionFormat) - 1

\* Health Status is known and says that the server cannot convert
healthUnavailable == ~health.isNull /\ ~health.ok

\* C24: in every reachable state of the page server mode is not on while the
\* last known Health Status is unavailable (nor while it is still unknown);
\* server mode is never switched on while health is unavailable or a check is
\* in progress; and every health check that ends not ok, or fails, leaves
\* server mode off.
C24_ServerModeOnlyWhileHealthy ==
    /\ [](useServer => ~health.isNull /\ health.ok)
    /\ [][(~useServer /\ useServer') => (~healthUnavailable /\ ~healthLoading)]_vars
    /\ [][(healthReq.active /\ ~healthReq'.active /\ ~health'.ok) => ~useServer']_vars

\* server mode is on and a recheck, started with it on, is in flight
C24_Witness ==
    /\ useServer
    /\ healthLoading
    /\ healthReq.active
    /\ healthReq.useServer
    /\ serverToggleDisabled

\* C25: when the fetch of a health check fails or its response cannot be
\* parsed, Health Status becomes unavailable, the loading flag goes back to
\* false, and the conversion status, the error message and the conversion in
\* flight are left as they were.
C25_FailedHealthCheckIsReportedUnavailable ==
    [][HealthCheckFails =>
          /\ ~health'.isNull
          /\ ~health'.ok
          /\ health'.message = "Health check failed"
          /\ ~healthLoading'
          /\ status' = status
          /\ errorMsg' = errorMsg
          /\ conv' = conv]_vars

\* a health check failed while a conversion was in flight, which goes on
C25_Witness ==
    /\ health = HealthFailed
    /\ ~healthLoading
    /\ status = "converting"
    /\ conv.pc = "convert"

\* a conversion is in flight
inFlight == conv.pc # "idle"

\* C28: at most one conversion is in flight at any time: the status is
\* 'uploading' or 'converting' exactly while a conversion is in flight, the
\* Convert button is disabled all that time, and a conversion starts only when
\* none is in flight.
C28_OneConversionInFlight ==
    /\ [](inFlight <=> status \in {"uploading", "converting"})
    /\ [](inFlight => convertDisabled)
    /\ [][handleConvert => ~inFlight]_vars
    /\ [][(inFlight /\ inFlight') =>
             /\ conv'.file = conv.file
             /\ conv'.sourceFormat = conv.sourceFormat
             /\ conv'.targetFormat = conv.targetFormat]_vars

\* a conversion is in flight, the user has put another file in the form since
\* it began, and the Convert button is disabled
C28_Witness ==
    /\ conv.pc = "convert"
    /\ file # NoFile
    /\ file # conv.file
    /\ convertDisabled

\* C29 (as stated): whenever a conversion has ended neither of its progress
\* timers is still running, so during a later conversion the progress never
\* exceeds 30 while the status is 'uploading'.
C29_NoTimerOutlivesItsConversion ==
    /\ status \in {"success", "error"} =>
          ~uploadInterval /\ ~convertInterval /\ staleIntervals = 0
    /\ status = "uploading" => progress <= uploadCap

\* C30: a conversion runs with the file, formats, mode, health and layout flag
\* of the moment it was triggered, whatever the form holds by the time it
\* settles; on success the suggested file name ends in the extension of the
\* target format the artifact was built for, and the download is that artifact.
C30_ConversionUsesValuesAtTrigger ==
    /\ [][handleConvert =>
             conv' = [pc |-> "upload", file |-> file,
                      sourceFormat |-> sourceFormat, targetFormat |-> targetFormat,
                      useServer |-> useServer, health |-> health,
                      preserveLayout |-> preserveLayout]]_vars
    /\ [][(inFlight /\ ~inFlight') =>
             /\ last'.called
             /\ last'.req = conv
             /\ last'.result = convertDocument(conv, last'.ext)]_vars
    /\ [](status = "success" /\ last.called =>
             /\ last.result.ok
             /\ fileName = <<"converted-", last.req.file.parts[1], ".",
                             getExtension(last.req.targetFormat)>>
             /\ downloadUrl.set
             /\ downloadUrl.blob = last.result.blob)

\* a conversion succeeded after the user had selected another target format
\* while it was in flight
C30_Witness ==
    /\ status = "success"
    /\ last.called
    /\ last.req.targetFormat # targetFormat
    /\ getExtension(last.req.targetFormat) # getExtension(targetFormat)
    /\ fileName[4] = getExtension(last.req.targetFormat)

\* C26 (as stated): every conversion that is triggered eventually reaches
\* 'success' or 'error'; the page never stays in 'uploading' or 'converting'
\* forever, also when the source is a password-protected PDF and the user
\* cancels the password prompt.
C26_EveryConversionEnds ==
    (status \in {"uploading", "converting"}) ~> (status \in {"success", "error"})

\* what does hold of C26's case: a conversion ends unless a password prompt was
\* cancelled or answered with nothing
ConversionEndsUnlessPromptAbandoned ==
    (status \in {"uploading", "converting"})
        ~> (status \in {"success", "error"} \/ pw.state = "abandoned")

\* C27: when text is extracted from a password-protected PDF the user is
\* prompted, first for the password and after every incorrect password again;
\* every password supplied is tried; and the conversion goes on to the pages
\* only after a password was accepted, which is the last one supplied.
C27_PromptUntilAccepted ==
    /\ \A k \in 1..Len(pw.prompts) :
          pw.prompts[k] = IF k = 1
                          THEN "This PDF is password protected. Enter password:"
                          ELSE "Incorrect password. Try again:"
    /\ Len(pw.prompts) > 0 => (conv.pc = "convert" \/ last.called)
    /\ pw.state = "incorrect" =>
          /\ Len(pw.supplied) = Len(pw.prompts)
          /\ \A k \in 1..Len(pw.supplied) : pw.supplied[k] # Password
          /\ ENABLED (\E answer \in PromptAnswers : onPassword(answer))
    /\ pw.state = "accepted" =>
          /\ Len(pw.supplied) = Len(pw.prompts)
          /\ pw.supplied[Len(pw.supplied)] = Password
          /\ \A k \in 1..(Len(pw.supplied) - 1) : pw.supplied[k] # Password
    /\ (last.called /\ promptsForPassword(last.req)) =>
          /\ pw.state = "accepted"
          /\ last.result.calls # <<>>
    /\ (conv.pc = "convert" /\ promptsForPassword(conv) /\ pw.state # "accepted") =>
          ~last.called

\* a protected PDF was converted after one wrong password and then the right one
C27_Witness ==
    /\ last.called
    /\ promptsForPassword(last.req)
    /\ pw.supplied = <<"guess", Password>>
    /\ Len(pw.prompts) = 2
    /\ status = "success"

====
